---- MODULE Spec2Model ----
(***************************************************************************)
(* random-background: a service that answers GET /:size with a randomly    *)
(* chosen background image, cropped and resized to a catalog size.  The    *)
(* model follows the latest snapshot of the program (src/unnamed/part_001):*)
(* the size catalog, the cropping geometry, the two-tier image cache, the  *)
(* request handler sendImage, the refresh loop of main and the precache    *)
(* worker.                                                                 *)
(*                                                                         *)
(* Go strings are modelled as sequences of one-character strings, so that  *)
(* concatenation (cache keys, the 400 message) is \o and can collide.      *)
(***************************************************************************)
EXTENDS Integers, Sequences, FiniteSets, TLC

(***************************************************************************)
(* Bounds of the model.                                                    *)
(***************************************************************************)
\* largest original width/height enumerated by the geometry specification
MaxDim == 9
\* largest numerator/denominator of the enumerated target ratios
MaxRatioTerm == 4

(***************************************************************************)
(* Strings.                                                                *)
(***************************************************************************)
DigitChars == <<"0", "1", "2", "3", "4", "5", "6", "7", "8", "9">>

\* strconv.Itoa for n >= 0
RECURSIVE Itoa(_)
Itoa(n) == IF n < 10 THEN <<DigitChars[n + 1]>>
           ELSE Itoa(n \div 10) \o <<DigitChars[(n % 10) + 1]>>

\* strings.Join(parts, sep)
RECURSIVE Join(_, _)
Join(parts, sep) ==
    IF Len(parts) = 0 THEN <<>>
    ELSE IF Len(parts) = 1 THEN parts[1]
    ELSE parts[1] \o sep \o Join(Tail(parts), sep)

\* number of positions at which needle occurs in hay (strings.Count with overlaps)
Occurrences(needle, hay) ==
    Cardinality({i \in 1..(Len(hay) - Len(needle) + 1) :
                    SubSeq(hay, i, i + Len(needle) - 1) = needle})

(***************************************************************************)
(* Size catalog.                                                           *)
(***************************************************************************)
NameSmall == <<"s", "m", "a", "l", "l">>
NameLarge == <<"l", "a", "r", "g", "e">>

\* getImageSizes()
getImageSizes ==
    << [Name |-> NameSmall, Width |-> 640, Height |-> 640],
       [Name |-> NameLarge, Width |-> 1024, Height |-> 1024] >>

\* (size *imageSize) String(): "<Width>x<Height>"
SizeString(size) == Itoa(size.Width) \o <<"x">> \o Itoa(size.Height)

\* (size *imageSize) Len()
SizeLen(size) == size.Width * size.Height

\* String() with the loop stopping one entry short
SizesStringDropsLast(sizes) ==
    Join([i \in 1..(Len(sizes) - 1) |-> sizes[i].Name], <<",", " ">>)

\* (sizes *imageSizes) String(): the names joined with ", "
SizesString(sizes) ==
    Join([i \in 1..Len(sizes) |-> sizes[i].Name], <<",", " ">>)

\* (sizes *imageSizes) Get(name): the first size of that name, ok = FALSE if none
SizesGet(sizes, name) ==
    LET hits == {i \in 1..Len(sizes) : sizes[i].Name = name}
    IN  IF hits = {} THEN [ok |-> FALSE, size |-> [Name |-> <<>>, Width |-> 0, Height |-> 0]]
        ELSE [ok |-> TRUE,
              size |-> sizes[CHOOSE i \in hits : \A j \in hits : i <= j]]

\* (sizes *imageSizes) Largest(): strict > keeps the first of equal areas
RECURSIVE LargestFrom(_, _, _)
LargestFrom(sizes, i, largest) ==
    IF i > Len(sizes) THEN largest
    ELSE LargestFrom(sizes, i + 1,
                     IF SizeLen(sizes[i]) > SizeLen(largest) THEN sizes[i] ELSE largest)

\* Largest() with >= in place of >: the last of equal areas wins
RECURSIVE LargestFromLast(_, _, _)
LargestFromLast(sizes, i, largest) ==
    IF i > Len(sizes) THEN largest
    ELSE LargestFromLast(sizes, i + 1,
                         IF SizeLen(sizes[i]) >= SizeLen(largest) THEN sizes[i] ELSE largest)

SizesLargestKeepsLast(sizes) ==
    LargestFromLast(sizes, 1, [Name |-> <<>>, Width |-> 0, Height |-> 0])

SizesLargest(sizes) ==
    LargestFrom(sizes, 1, [Name |-> <<>>, Width |-> 0, Height |-> 0])

(***************************************************************************)
(* Cropping geometry.  The Go code computes with float64; the target ratio *)
(* is the float64 quotient float64(tw)/float64(th) of a target size        *)
(* (resizeAndCropImage), represented here by the pair (tw, th).  The       *)
(* operators below reproduce the float64 results with integer arithmetic:  *)
(*  - the comparison of the two quotients is the comparison of the exact   *)
(*    fractions (distinct fractions of small terms give distinct doubles); *)
(*  - int(x + 0.5) is the exact round-half-up of x unless the exact x lies *)
(*    on a half (m - 1/2): there the rounding error of the double          *)
(*    fl(tw/th) decides whether the result is m or m - 1.                  *)
(***************************************************************************)
RECURSIVE Pow2(_)
Pow2(n) == IF n <= 0 THEN 1 ELSE 2 * Pow2(n - 1)

\* floor(log2(n/d)) for n, d > 0
RECURSIVE FloorLog2Up(_, _, _)
FloorLog2Up(n, d, e) == IF n >= 2 * d THEN FloorLog2Up(n, 2 * d, e + 1) ELSE e
RECURSIVE FloorLog2Down(_, _, _)
FloorLog2Down(n, d, e) == IF n < d THEN FloorLog2Down(2 * n, d, e - 1) ELSE e
FloorLog2(n, d) == IF n >= d THEN FloorLog2Up(n, d, 0) ELSE FloorLog2Down(n, d, 0)

\* 2^k mod b
RECURSIVE Pow2Mod(_, _)
Pow2Mod(k, b) == IF k <= 0 THEN 1 % b ELSE (2 * Pow2Mod(k - 1, b)) % b

\* The signed rounding remainder of the double fl(a/b): with M the 53-bit
\* significand and k = 52 - floor(log2(a/b)), M * b = a * 2^k - RoundingRemainder.
\* Negative: fl(a/b) > a/b; positive: fl(a/b) < a/b; zero: a/b is a double.
RoundingRemainder(a, b) ==
    LET k   == 52 - FloorLog2(a, b)
        rem == ((a % b) * Pow2Mod(k, b)) % b
    IN  IF 2 * rem > b THEN rem - b ELSE rem

\* L > R * 2^D for integers L, R >= 0 and any integer D, without overflow
GreaterThanScaled(L, R, D) ==
    LET p == Pow2(IF D >= 0 THEN (IF D > 30 THEN 30 ELSE D)
                  ELSE (IF -D > 30 THEN 30 ELSE -D))
    IN  IF D >= 0 THEN L >= 1 /\ ((L - 1) \div p) >= R
        ELSE L > (R \div p)

\* int(float64(w)/fl(tw/th) + 0.5)
RoundedQuotient(w, tw, th) ==
    LET m == (2 * w * th + tw) \div (2 * tw)
        onHalf == ((2 * w * th + tw) % (2 * tw) = 0) /\ m >= 2
        rho == RoundingRemainder(tw, th)
        D == FloorLog2(2 * m - 1, 2) - FloorLog2(tw, th)
    IN  IF onHalf /\ rho < 0 /\ GreaterThanScaled((-rho) * (2 * m - 1), tw, D)
        THEN m - 1 ELSE m

\* int(float64(h)*fl(tw/th) + 0.5)
RoundedProduct(h, tw, th) ==
    LET m == (2 * h * tw + th) \div (2 * th)
        onHalf == ((2 * h * tw + th) % (2 * th) = 0) /\ m >= 2
        rho == RoundingRemainder(tw, th)
        D == FloorLog2(2 * m - 1, 2) - FloorLog2(tw, th)
    IN  IF onHalf /\ rho > 0 /\ GreaterThanScaled(2 * h * rho, th, D)
        THEN m - 1 ELSE m

\* Go's integer division truncates toward zero
GoDiv(a, b) == IF a >= 0 THEN a \div b ELSE -((-a) \div b)

Min(a, b) == IF a <= b THEN a ELSE b
Max(a, b) == IF a >= b THEN a ELSE b

\* image.Rect(x0, y0, x1, y1): swaps the coordinates into order
ImageRect(x0, y0, x1, y1) ==
    [MinX |-> Min(x0, x1), MinY |-> Min(y0, y1),
     MaxX |-> Max(x0, x1), MaxY |-> Max(y0, y1)]

\* The first snapshot of the function (src/main.go:107): no rounding, no
\* centring, and the height computed with a product instead of a quotient.
getCroppingRectangleForAspectRatioV1(size, tw, th) ==
    IF size.Width * th < tw * size.Height
    THEN ImageRect(0, 0, size.Width, (size.Width * tw) \div th)
    ELSE ImageRect(0, 0, (size.Height * tw) \div th, size.Height)

\* a variant that derives each cropped dimension from the wrong side
getCroppingRectangleForAspectRatioSwapped(size, tw, th) ==
    IF size.Width * th <= tw * size.Height
    THEN LET height == RoundedQuotient(size.Height, tw, th)
             startY == GoDiv(size.Height - height, 2)
         IN  ImageRect(0, startY, size.Width, startY + height)
    ELSE LET width == RoundedProduct(size.Width, tw, th)
             startX == GoDiv(size.Width - width, 2)
         IN  ImageRect(startX, 0, startX + width, size.Height)

\* getCroppingRectangleForAspectRatio(size, newAspectRatio), newAspectRatio = fl(tw/th)
getCroppingRectangleForAspectRatio(size, tw, th) ==
    IF size.Width * th < tw * size.Height
    THEN LET height == RoundedQuotient(size.Width, tw, th)
             startY == GoDiv(size.Height - height, 2)
         IN  ImageRect(0, startY, size.Width, startY + height)
    ELSE IF size.Width * th > tw * size.Height
    THEN LET width == RoundedProduct(size.Height, tw, th)
             startX == GoDiv(size.Width - width, 2)
         IN  ImageRect(startX, 0, startX + width, size.Height)
    ELSE ImageRect(0, 0, size.Width, size.Height)


(***************************************************************************)
(* Bounds of the concurrent model.                                         *)
(***************************************************************************)
\* most nodes on one discovered tag page (so most URLs in the pool)
MaxPool == 1
\* most discovery attempts of the refresh loop
MaxCycles == 2
\* most requests started over a run
MaxRequests == 1

\* request handlers (one goroutine per request in flight)
Handlers == {"h1"}

(***************************************************************************)
(* The environment: source URLs, tag-page nodes, request parameters.       *)
(***************************************************************************)
URL1 == <<"a", ".", "j", "p", "g">>
URL2 == <<"a", ".", "j", "p", "g", "|", "6", "4", "0", "x", "6", "4", "0", ".", "P", "N", "G">>
URLGif == <<"c", ".", "g", "i", "f">>
URLJpeg == <<"a", ".", "j", "p", "e", "g">>
URLJepg == <<"b", ".", "J", "E", "P", "G">>

\* instagramNode values a tag page may carry
Nodes ==
    { [IsVideo |-> FALSE, DisplaySrc |-> URL1],
      [IsVideo |-> FALSE, DisplaySrc |-> URL2],
      [IsVideo |-> TRUE,  DisplaySrc |-> URL1],
      [IsVideo |-> FALSE, DisplaySrc |-> URLGif],
      [IsVideo |-> FALSE, DisplaySrc |-> URLJpeg],
      [IsVideo |-> FALSE, DisplaySrc |-> URLJepg] }

\* the node lists of a page, at most MaxPool long
RECURSIVE SeqsUpTo(_, _)
SeqsUpTo(S, n) ==
    IF n = 0 THEN {<<>>}
    ELSE LET shorter == SeqsUpTo(S, n - 1)
         IN  shorter \cup {Append(q, x) : q \in {r \in shorter : Len(r) = n - 1}, x \in S}

\* values of the :size path parameter
NameMedium == <<"m", "e", "d", "i", "u", "m">>
NameSmallUpper == <<"S", "m", "a", "l", "l">>
SizeParams == {NameSmall, NameLarge, NameMedium, NameSmallUpper}

\* the URLs the model's pool can hold
PoolURLs == {URL1, URL2, URLJepg}

\* width and height of the image the origin serves for a URL
OriginWidth(url) == IF url = URL1 THEN 3000 ELSE 2
OriginHeight(url) == IF url = URL1 THEN 2402 ELSE 7

(***************************************************************************)
(* allowedImageExtensions: (?i)\.(je?pg|png)$                              *)
(***************************************************************************)
LowerChar(c) ==
    CASE c = "J" -> "j" [] c = "P" -> "p" [] c = "E" -> "e"
      [] c = "G" -> "g" [] c = "N" -> "n" [] OTHER -> c

ToLower(s) == [i \in 1..Len(s) |-> LowerChar(s[i])]

HasSuffix(s, suffix) ==
    /\ Len(s) >= Len(suffix)
    /\ SubSeq(s, Len(s) - Len(suffix) + 1, Len(s)) = suffix

\* je?pg is "j", an optional "e", then "pg": it matches jpg and jepg, and
\* does not match jpeg
AllowedImageExtension(url) ==
    \E suffix \in { <<".", "j", "p", "g">>, <<".", "j", "e", "p", "g">>, <<".", "p", "n", "g">> } :
        HasSuffix(ToLower(url), suffix)

(***************************************************************************)
(* Image bytes and the image library, by provenance: bytes are what the    *)
(* origin served or the JPEG encoding of an image; an image is a source    *)
(* with the operations applied to it.                                      *)
(***************************************************************************)
\* a nil []byte
NilBytes == [kind |-> "nil"]

\* what httpClient.Get(url) may return besides an error
OriginImageBytes(url) == [kind |-> "origin", url |-> url]
OriginGarbageBytes(url) == [kind |-> "garbage", url |-> url]

\* image.Decode: fails on anything that is not an encoded image
bytesToImage(input) ==
    IF input.kind = "origin"
    THEN [err |-> FALSE,
          image |-> [url |-> input.url, ops |-> <<>>,
                     Width |-> OriginWidth(input.url), Height |-> OriginHeight(input.url)]]
    ELSE IF input.kind = "jpeg"
    THEN [err |-> FALSE, image |-> input.image]
    ELSE [err |-> TRUE, image |-> [url |-> <<>>, ops |-> <<>>, Width |-> 0, Height |-> 0]]

\* blur.Gaussian(image, radius)
BlurGaussian(img, radius) == [img EXCEPT !.ops = Append(@, <<"blur", radius>>)]

\* transform.Crop(image, rect): the bounds of the result are the rectangle's
TransformCrop(img, rect) ==
    [img EXCEPT !.ops = Append(@, <<"crop", rect>>),
                !.Width = rect.MaxX - rect.MinX,
                !.Height = rect.MaxY - rect.MinY]

\* transform.Resize(image, width, height, MitchellNetravali)
TransformResize(img, width, height) ==
    [img EXCEPT !.ops = Append(@, <<"resize", width, height>>),
                !.Width = width, !.Height = height]

\* imgio.JPEGEncoder(quality)(writer, image): image/jpeg refuses an image of
\* 65536 pixels or more a side, and writes to a bytes.Buffer do not fail
JPEGEncodeFails(img) == img.Width > 65535 \/ img.Height > 65535

JPEGEncode(img, quality) == [kind |-> "jpeg", quality |-> quality, image |-> img]

imageQuality == 85

\* resizeAndCropImage(imageData, size)
resizeAndCropImage(imageData, size) ==
    LET decoded == bytesToImage(imageData)
        originalSize == [Width |-> decoded.image.Width, Height |-> decoded.image.Height]
        rect == getCroppingRectangleForAspectRatio(originalSize, size.Width, size.Height)
        croppedImage == TransformCrop(decoded.image, rect)
        result == TransformResize(croppedImage, size.Width, size.Height)
    IN  IF decoded.err THEN [err |-> "decode", resizedImage |-> NilBytes]
        ELSE IF JPEGEncodeFails(result) THEN [err |-> "encode", resizedImage |-> NilBytes]
        ELSE [err |-> "", resizedImage |-> JPEGEncode(result, imageQuality)]


(***************************************************************************)
(* State.                                                                  *)
(***************************************************************************)
\* imageURLs is read and written without synchronisation.  A slice is three
\* words (data pointer, len, cap) and the store of line 340 writes them one by
\* one: while it is under way (refresh.pc = "store") a reader may take each
\* word from the list being replaced or from the list being installed.
VARIABLES
    imageURLs,     \* var imageURLs []string: the source pool
    imageCache,    \* var imageCache *lru.ARCCache: resident key -> bytes
    refresh,       \* the refresh goroutine of main
    workers,       \* the resizeLargestWorker goroutines started so far
    handlers,      \* the sendImage invocations in flight, per handler
    requests,      \* number of requests started
    firstResult,   \* history: key -> result of the first successful getImage
                   \* of that key since the key was last evicted
    cropIn,        \* geometry specification: the arguments
    cropOut,       \* geometry specification: the rectangle returned
    sizesIn,       \* catalog specification: the catalog Largest() is called on
    largestOut     \* catalog specification: the size returned

vars == <<imageURLs, imageCache, refresh, workers, handlers, requests,
          firstResult, cropIn, cropOut, sizesIn, largestOut>>

(***************************************************************************)
(* The image cache (lru.ARCCache), as the program uses it.  The cache is a  *)
(* library outside the program's source; Add is taken from the service's   *)
(* description of it: capacity-bounded, an insertion beyond the capacity   *)
(* evicts a resident entry, which one being the replacement policy's       *)
(* choice.                                                                 *)
(***************************************************************************)
\* lru.NewARC(50 * len(getImageSizes().Sizes))
Capacity == 50 * Len(getImageSizes)

\* imageCache.Get(key)
CacheGet(cache, key) ==
    IF key \in DOMAIN cache THEN [found |-> TRUE, value |-> cache[key]]
    ELSE [found |-> FALSE, value |-> NilBytes]

Put(cache, key, value) ==
    [k \in (DOMAIN cache) \cup {key} |-> IF k = key THEN value ELSE cache[k]]

Without(cache, key) == [k \in (DOMAIN cache) \ {key} |-> cache[k]]

\* imageCache.Add(key, value): the caches that may result
CacheAdd(cache, key, value) ==
    IF key \in DOMAIN cache \/ Cardinality(DOMAIN cache) < Capacity
    THEN {Put(cache, key, value)}
    ELSE {Put(Without(cache, victim), key, value) : victim \in DOMAIN cache}

\* a cache key that leaves the size out
SizeCacheKeyWithoutSize(url, size) == url \o <<"|">>

\* cacheKey := url + "|" + size.String()
SizeCacheKey(url, size) == url \o <<"|">> \o SizeString(size)

\* originalImageCacheKey := url + "|original"
OriginalCacheKey(url) == url \o <<"|", "o", "r", "i", "g", "i", "n", "a", "l">>

(***************************************************************************)
(* getImage(url, size, cache), with getOriginalImage inlined, as a call    *)
(* record stepped by the goroutine that runs it.  Positions:               *)
(*   "lookup"    before imageCache.Get(cacheKey)                           *)
(*   "original"  before imageCache.Get(originalImageCacheKey)              *)
(*   "fetch"     before httpClient.Get(url) ... imageCache.Add(original)   *)
(*   "resize"    before resizeAndCropImage ... imageCache.Add(cacheKey)    *)
(*   "return"    returned imageResult, err                                 *)
(* gets, fetches, decodes, resizes count what the call has done;           *)
(* normalized tells that it fetched, decoded, encoded and stored the       *)
(* original; prior is history (see WithPrior); sizeResident and            *)
(* originalResident are history: the key was resident when the call looked *)
(* it up; changed is history: a step of the call has changed the cache.    *)
(***************************************************************************)
NoCall ==
    [pc |-> "none", url |-> <<>>, size |-> [Name |-> <<>>, Width |-> 0, Height |-> 0],
     originalImage |-> NilBytes, imageResult |-> NilBytes, err |-> "",
     gets |-> 0, fetches |-> 0, decodes |-> 0, resizes |-> 0,
     found |-> FALSE, originalFound |-> FALSE, normalized |-> FALSE,
     prior |-> NilBytes, sizeResident |-> FALSE, originalResident |-> FALSE,
     changed |-> FALSE]

NewCall(url, size) == [NoCall EXCEPT !.pc = "lookup", !.url = url, !.size = size]

\* getImage ignoring what imageCache.Get(cacheKey) found
GetImageLookupIgnoresHit(c, cache) == [c EXCEPT !.pc = "original", !.gets = @ + 1]

\* getImage: cachedImage, found := imageCache.Get(cacheKey)
GetImageLookup(c, cache) ==
    LET got == CacheGet(cache, SizeCacheKey(c.url, c.size))
    IN  IF got.found
        THEN [c EXCEPT !.pc = "return", !.gets = @ + 1, !.found = TRUE,
                       !.imageResult = got.value]
        ELSE [c EXCEPT !.pc = "original", !.gets = @ + 1]

\* getOriginalImage ignoring what imageCache.Get(originalImageCacheKey) found
GetOriginalLookupIgnoresHit(c, cache) == [c EXCEPT !.pc = "fetch", !.gets = @ + 1]

\* getOriginalImage: cachedOriginalImage, found := imageCache.Get(originalImageCacheKey)
GetOriginalLookup(c, cache) ==
    LET got == CacheGet(cache, OriginalCacheKey(c.url))
    IN  IF got.found
        THEN [c EXCEPT !.pc = "resize", !.gets = @ + 1, !.originalFound = TRUE,
                       !.originalImage = got.value]
        ELSE [c EXCEPT !.pc = "fetch", !.gets = @ + 1]

\* the value getOriginalImage returns after it has stored the encoded original:
\* imageResult is never assigned on this path, so the caller gets a nil slice
FetchedOriginalResult(encoded) == NilBytes

\* variants of getOriginalImage from httprequest.NewClient() on: one that
\* fetches a second time when httpClient.Get fails, one that stores the fetched
\* bytes under the original's key before it decodes them
GetOriginalFetchVariant(c, cache, origin, retries, storesRaw) ==
    LET data == IF origin = "image" THEN OriginImageBytes(c.url)
                ELSE OriginGarbageBytes(c.url)
        decoded == bytesToImage(data)
        encoded == JPEGEncode(BlurGaussian(decoded.image, 30), 100)
        raw == IF storesRaw THEN Put(cache, OriginalCacheKey(c.url), data) ELSE cache
    IN  IF origin = "clientError"
        THEN {[call |-> [c EXCEPT !.pc = "return", !.err = "client"], cache |-> cache]}
        ELSE IF origin = "getError"
        THEN {[call |-> [c EXCEPT !.pc = "return", !.err = "fetch",
                                  !.fetches = @ + (IF retries THEN 2 ELSE 1)],
               cache |-> cache]}
        ELSE IF decoded.err
        THEN {[call |-> [c EXCEPT !.pc = "return", !.err = "decode",
                                  !.fetches = @ + 1, !.decodes = @ + 1],
               cache |-> raw]}
        ELSE {[call |-> [c EXCEPT !.pc = "resize", !.normalized = TRUE,
                                  !.fetches = @ + 1, !.decodes = @ + 1,
                                  !.originalImage = NilBytes],
               cache |-> Put(raw, OriginalCacheKey(c.url), encoded)]}

GetOriginalFetchRetries(c, cache, origin) ==
    GetOriginalFetchVariant(c, cache, origin, TRUE, FALSE)

GetOriginalFetchStoresRaw(c, cache, origin) ==
    GetOriginalFetchVariant(c, cache, origin, FALSE, TRUE)

\* getOriginalImage from httprequest.NewClient() on: the (call, cache) pairs that
\* may result.  origin is what the network answered: "clientError", "getError",
\* "garbage" (bytes that do not decode) or "image".
GetOriginalFetch(c, cache, origin) ==
    LET fetched == c
        data == IF origin = "image" THEN OriginImageBytes(c.url)
                ELSE OriginGarbageBytes(c.url)
        decoded == bytesToImage(data)
        encoded == JPEGEncode(BlurGaussian(decoded.image, 30), 100)
    IN  IF origin = "clientError"
        THEN {[call |-> [fetched EXCEPT !.pc = "return", !.err = "client"],
               cache |-> cache]}
        ELSE IF origin = "getError"
        THEN {[call |-> [fetched EXCEPT !.pc = "return", !.err = "fetch",
                                        !.fetches = @ + 1],
               cache |-> cache]}
        ELSE IF decoded.err
        THEN {[call |-> [fetched EXCEPT !.pc = "return", !.err = "decode",
                                        !.fetches = @ + 1, !.decodes = @ + 1],
               cache |-> cache]}
        ELSE IF JPEGEncodeFails(decoded.image)
        THEN {[call |-> [fetched EXCEPT !.pc = "return", !.err = "encode",
                                        !.fetches = @ + 1, !.decodes = @ + 1],
               cache |-> cache]}
        ELSE {[call |-> [fetched EXCEPT !.pc = "resize", !.normalized = TRUE,
                                        !.fetches = @ + 1, !.decodes = @ + 1,
                                        !.originalImage = FetchedOriginalResult(encoded)],
               cache |-> added] :
                  added \in CacheAdd(cache, OriginalCacheKey(c.url), encoded)}

\* getImage storing the original it resized from in place of the result
GetImageResizeStoresOriginal(c, cache) ==
    LET resized == resizeAndCropImage(c.originalImage, c.size)
    IN  IF resized.err # ""
        THEN {[call |-> [c EXCEPT !.pc = "return", !.err = resized.err,
                                  !.decodes = @ + 1],
               cache |-> cache]}
        ELSE {[call |-> [c EXCEPT !.pc = "return", !.decodes = @ + 1,
                                  !.resizes = @ + 1,
                                  !.imageResult = resized.resizedImage],
               cache |-> added] :
                  added \in CacheAdd(cache, SizeCacheKey(c.url, c.size), c.originalImage)}

\* getImage from resizeAndCropImage(originalImage, size) on
GetImageResize(c, cache) ==
    LET resized == resizeAndCropImage(c.originalImage, c.size)
    IN  IF resized.err # ""
        THEN {[call |-> [c EXCEPT !.pc = "return", !.err = resized.err,
                                  !.decodes = @ + 1],
               cache |-> cache]}
        ELSE {[call |-> [c EXCEPT !.pc = "return", !.decodes = @ + 1,
                                  !.resizes = @ + 1,
                                  !.imageResult = resized.resizedImage],
               cache |-> added] :
                  added \in CacheAdd(cache, SizeCacheKey(c.url, c.size),
                                     resized.resizedImage)}

OriginAnswers == {"clientError", "getError", "garbage", "image"}

\* history: whether a step of call c from cache, with these results, changed the cache
NotedChange(c, cache, results) ==
    {[call |-> [r.call EXCEPT !.changed = c.changed \/ (r.cache # cache)],
      cache |-> r.cache] : r \in results}

\* one step of a call in progress: the (call, cache) pairs that may result
GetImageSteps(c, cache) ==
    CASE c.pc = "lookup" ->
            {[call |-> [GetImageLookup(c, cache) EXCEPT !.sizeResident =
                            SizeCacheKey(c.url, c.size) \in DOMAIN cache],
              cache |-> cache]}
      [] c.pc = "original" ->
            {[call |-> [GetOriginalLookup(c, cache) EXCEPT !.originalResident =
                            OriginalCacheKey(c.url) \in DOMAIN cache],
              cache |-> cache]}
      [] c.pc = "fetch" ->
            UNION {NotedChange(c, cache, GetOriginalFetch(c, cache, origin)) :
                      origin \in OriginAnswers}
      [] c.pc = "resize" -> NotedChange(c, cache, GetImageResize(c, cache))
      [] OTHER -> {}

\* history: the first successful result per key, forgotten when the key is evicted
RecordResult(first, cache, c) ==
    LET key == SizeCacheKey(c.url, c.size)
        kept == [k \in (DOMAIN first) \cap (DOMAIN cache) |-> first[k]]
    IN  IF c.pc = "return" /\ c.err = "" /\ key \notin DOMAIN kept /\ key \in DOMAIN cache
        THEN Put(kept, key, c.imageResult)
        ELSE kept


(***************************************************************************)
(* Initial state: main before the goroutine and the server start.          *)
(***************************************************************************)
\* a handler with no request: status 0 is "no response written"
IdleHandler ==
    [pc |-> "idle", param |-> <<>>, size |-> NoCall.size, index |-> 0,
     call |-> NoCall, status |-> 0, body |-> <<>>, panic |-> "",
     poolReads |-> 0, sawEmpty |-> FALSE, attemptsAtStart |-> 0]

\* the refresh goroutine: last is the outcome of the latest discovery attempt,
\* gap what separated it from the attempt before, before the pool it found,
\* pending the URLs preCacheLargestImages has still to send, newImageURLs the
\* list the iteration built
InitRefresh ==
    [pc |-> "discover", attempts |-> 0, last |-> "none", slept |-> FALSE,
     gap |-> "none", before |-> <<>>, pending |-> <<>>, newImageURLs |-> <<>>]

InitSystem ==
    /\ imageURLs = <<>>
    /\ imageCache = <<>>
    /\ refresh = InitRefresh
    /\ workers = <<>>
    /\ handlers = [h \in Handlers |-> IdleHandler]
    /\ requests = 0
    /\ firstResult = <<>>

NoCrop == [Width |-> 0, Height |-> 0, tw |-> 0, th |-> 0]
NoRect == [MinX |-> 0, MinY |-> 0, MaxX |-> 0, MaxY |-> 0]

\* imageSize{}: the zero value
NoSize == [Name |-> <<>>, Width |-> 0, Height |-> 0]

Init ==
    /\ InitSystem
    /\ cropIn = NoCrop
    /\ cropOut = NoRect
    /\ sizesIn = <<>>
    /\ largestOut = NoSize

(***************************************************************************)
(* The refresh loop of main.                                               *)
(***************************************************************************)
\* the inner loops over pages and nodes: the display URLs of the nodes that are
\* no video and carry an allowed extension, in page order
RECURSIVE FilterNodes(_)
FilterNodes(nodes) ==
    IF nodes = <<>> THEN <<>>
    ELSE LET node == Head(nodes)
             rest == FilterNodes(Tail(nodes))
         IN  IF node.IsVideo = FALSE /\ AllowedImageExtension(node.DisplaySrc)
             THEN <<node.DisplaySrc>> \o rest
             ELSE rest

\* history of a worker: the URL of the job it finished last, whether that job
\* fetched, decoded, encoded and stored the original, and whether it resized
\* and stored the largest size
NoJob == [url |-> <<>>, normalized |-> FALSE, stored |-> FALSE]

\* a job channel of one slot, whatever the length of the list
QueueCapacityOne(urls) == 1

\* jobs := make(chan string, len(imageURLs))
QueueCapacity(urls) == Len(urls)

\* preCacheLargestImages(imageURLs) up to go resizeLargestWorker(jobs, sizes):
\* a channel of capacity len(imageURLs), still empty and open, and a worker
\* goroutine on it.  jobs is the channel's buffer; sent (the list to send) and
\* received (the URLs taken from the channel so far) are history.
preCacheLargestImages(ws, urls) ==
    Append(ws, [pc |-> "receive", jobs |-> <<>>, capacity |-> QueueCapacity(urls),
                closed |-> FALSE, call |-> NoCall, last |-> NoJob,
                sent |-> urls, received |-> <<>>])

\* a return from preCacheLargestImages that leaves the channel open
QueueLeftOpen(w) == w

\* close(jobs)
CloseQueue(w) == [w EXCEPT !.closed = TRUE]

\* a loop that stores the (still nil) newImageURLs before it continues
PoolClearedOnFailure(pool) == <<>>

\* what the loop does with the pool when an attempt fails: nothing (continue)
PoolAfterFailure(pool) == pool

DiscoveryFailures == {"fetchError", "noMatch", "unmarshalError"}

\* the history fields of an attempt
Attempted(r, outcome) ==
    [r EXCEPT !.attempts = @ + 1, !.last = outcome, !.slept = FALSE,
              !.before = IF outcome = "failed" THEN imageURLs ELSE <<>>,
              !.gap = IF r.attempts = 0 THEN "first"
                      ELSE IF r.slept THEN "slept" ELSE "immediate"]

\* one iteration that ends in a continue: httpClient.Get fails, the pattern
\* does not match, or json.Unmarshal fails
DiscoverFails ==
    /\ refresh.pc = "discover"
    /\ refresh.attempts < MaxCycles
    /\ \E failure \in DiscoveryFailures :
          refresh' = [Attempted(refresh, "failed") EXCEPT !.pc = "discover"]
    /\ imageURLs' = PoolAfterFailure(imageURLs)
    /\ UNCHANGED <<imageCache, workers, handlers, requests, firstResult, cropIn, cropOut, sizesIn, largestOut>>

\* one iteration that builds newImageURLs and begins the store
\* imageURLs = newImageURLs
DiscoverSucceeds ==
    /\ refresh.pc = "discover"
    /\ refresh.attempts < MaxCycles
    /\ \E nodes \in SeqsUpTo(Nodes, MaxPool) :
          refresh' = [Attempted(refresh, "ok") EXCEPT !.pc = "store",
                                                     !.newImageURLs = FilterNodes(nodes)]
    /\ UNCHANGED <<imageURLs, imageCache, workers, handlers, requests, firstResult,
                   cropIn, cropOut, sizesIn, largestOut>>

\* the last word of imageURLs = newImageURLs is written, and
\* preCacheLargestImages(imageURLs) begins, up to the start of the worker
StoreCompletes ==
    /\ refresh.pc = "store"
    /\ imageURLs' = refresh.newImageURLs
    /\ workers' = preCacheLargestImages(workers, refresh.newImageURLs)
    /\ refresh' = [refresh EXCEPT !.pc = "send", !.pending = refresh.newImageURLs]
    /\ UNCHANGED <<imageCache, handlers, requests, firstResult, cropIn, cropOut, sizesIn, largestOut>>

\* jobs <- url: a send on the buffered channel, which waits while the buffer
\* holds capacity elements
PreCacheSends ==
    /\ refresh.pc = "send"
    /\ refresh.pending # <<>>
    /\ LET w == workers[Len(workers)]
       IN  /\ Len(w.jobs) < w.capacity
           /\ workers' = [workers EXCEPT ![Len(workers)] =
                             [w EXCEPT !.jobs = Append(w.jobs, Head(refresh.pending))]]
    /\ refresh' = [refresh EXCEPT !.pending = Tail(refresh.pending)]
    /\ UNCHANGED <<imageURLs, imageCache, handlers, requests, firstResult,
                   cropIn, cropOut, sizesIn, largestOut>>

\* close(jobs) after the last send; preCacheLargestImages returns and the loop
\* goes on to time.Sleep
PreCacheCloses ==
    /\ refresh.pc = "send"
    /\ refresh.pending = <<>>
    /\ workers' = [workers EXCEPT ![Len(workers)] = CloseQueue(workers[Len(workers)])]
    /\ refresh' = [refresh EXCEPT !.pc = "sleep"]
    /\ UNCHANGED <<imageURLs, imageCache, handlers, requests, firstResult,
                   cropIn, cropOut, sizesIn, largestOut>>

\* time.Sleep(time.Hour) returns
RefreshWakes ==
    /\ refresh.pc = "sleep"
    /\ refresh' = [refresh EXCEPT !.pc = "discover", !.slept = TRUE]
    /\ UNCHANGED <<imageURLs, imageCache, workers, handlers, requests, firstResult,
                   cropIn, cropOut, sizesIn, largestOut>>

(***************************************************************************)
(* resizeLargestWorker.  Receiving the next URL from the channel (after the *)
(* pacing sleep of the URL before) is a step of its own: the worker then   *)
(* holds the URL and has not yet looked anything up, and the steps of      *)
(* getImage follow, each of them one cache operation.  A receive waits     *)
(* while the channel is empty and open.                                    *)
(* pc: "receive" at the top of the loop, "getImage" from the received URL  *)
(* to the return of the call, "done" after the loop.                       *)
(***************************************************************************)
\* the prior successful result of the call's key, noted when the call starts
WithPrior(c) ==
    IF c.pc = "lookup" /\ SizeCacheKey(c.url, c.size) \in DOMAIN firstResult
    THEN [c EXCEPT !.prior = firstResult[SizeCacheKey(c.url, c.size)]]
    ELSE c

\* the worker after a step of its call: the result of getImage is dropped and
\* the worker sleeps 5 seconds before it receives again
WorkerAfter(w, c) ==
    IF c.pc = "return"
    THEN [w EXCEPT !.pc = "receive", !.call = NoCall,
                   !.last = [url |-> c.url, normalized |-> c.normalized,
                             stored |-> c.resizes > 0]]
    ELSE [w EXCEPT !.pc = "getImage", !.call = c]

\* for url := range jobs ends: the channel is closed and drained
WorkerEnds(i) ==
    /\ workers[i].pc = "receive"
    /\ workers[i].jobs = <<>>
    /\ workers[i].closed
    /\ workers' = [workers EXCEPT ![i].pc = "done"]
    /\ UNCHANGED <<imageURLs, imageCache, refresh, handlers, requests, firstResult,
                   cropIn, cropOut, sizesIn, largestOut>>

\* for url := range jobs receives a URL: the worker is about to call
\* getImage(url, getImageSizes().Largest(), imageCache)
WorkerReceives(i) ==
    /\ workers[i].pc = "receive"
    /\ workers[i].jobs # <<>>
    /\ LET w == workers[i]
       IN  workers' = [workers EXCEPT ![i] =
              [w EXCEPT !.pc = "getImage",
                        !.jobs = Tail(w.jobs),
                        !.received = Append(w.received, Head(w.jobs)),
                        !.call = NewCall(Head(w.jobs), SizesLargest(getImageSizes))]]
    /\ UNCHANGED <<imageURLs, imageCache, refresh, handlers, requests, firstResult,
                   cropIn, cropOut, sizesIn, largestOut>>

\* getImage(url, largest, imageCache), one step
WorkerGetsImage(i) ==
    /\ workers[i].pc = "getImage"
    /\ \E r \in GetImageSteps(WithPrior(workers[i].call), imageCache) :
          /\ workers' = [workers EXCEPT ![i] = WorkerAfter(workers[i], r.call)]
          /\ imageCache' = r.cache
          /\ firstResult' = RecordResult(firstResult, r.cache, r.call)
    /\ UNCHANGED <<imageURLs, refresh, handlers, requests, cropIn, cropOut, sizesIn, largestOut>>

(***************************************************************************)
(* sendImage.  The handler reads the global imageURLs three times, with no *)
(* lock: for the emptiness check, for the modulus and for the element.     *)
(* Each read is a step of its own and returns the list stored last.  A     *)
(* run-time panic ends the handler without a response (net/http recovers   *)
(* it and closes the connection).                                          *)
(***************************************************************************)
BadRequestPrefix == <<"T", "h", "e", " ", "U", "R", "L", " ", "n", "e", "e", "d", "s", " ", "t", "o", " ", "e", "n", "d", " ", "w", "i", "t", "h", " ", "o", "n", "e", " ", "o", "f", ":", " ">>
UnavailableBody == <<"Unable to return an image at this moment, try again in a bit">>

\* the 400 response of sendImage
BadRequestBody(sizes) == BadRequestPrefix \o SizesString(sizes)

\* sizes.Get(context.Param("size")) and the 400 response
SendImageStarts(h) ==
    /\ handlers[h].pc = "idle"
    /\ requests < MaxRequests
    /\ requests' = requests + 1
    /\ \E param \in SizeParams :
          LET got == SizesGet(getImageSizes, param)
              fresh == [IdleHandler EXCEPT !.param = param,
                                           !.attemptsAtStart = refresh.attempts]
          IN  handlers' = [handlers EXCEPT ![h] =
                  IF got.ok = FALSE
                  THEN [fresh EXCEPT !.status = 400,
                                     !.body = BadRequestBody(getImageSizes)]
                  ELSE [fresh EXCEPT !.pc = "checkLen", !.size = got.size]]
    /\ UNCHANGED <<imageURLs, imageCache, refresh, workers, firstResult, cropIn, cropOut, sizesIn, largestOut>>

\* the emptiness check without its return
EmptyPoolFallsThrough(hr, n) == [hr EXCEPT !.pc = "index", !.poolReads = @ + 1]

\* if len(imageURLs) == 0 { return 503 }
EmptyPoolResponse(hr, n) ==
    IF n = 0
    THEN [hr EXCEPT !.pc = "idle", !.status = 503, !.body = UnavailableBody,
                    !.poolReads = @ + 1]
    ELSE [hr EXCEPT !.pc = "index", !.poolReads = @ + 1]

\* the lists whose words a read of imageURLs can return: the stored list,
\* and during a store the list being installed as well
ListsInView ==
    IF refresh.pc = "store" THEN {imageURLs, refresh.newImageURLs} ELSE {imageURLs}

\* the len word of imageURLs as a reader may see it
LensInView == {Len(list) : list \in ListsInView}

\* sawEmpty is history: the len the handler read was 0
SendImageChecksLen(h) ==
    /\ handlers[h].pc = "checkLen"
    /\ \E n \in LensInView :
          handlers' = [handlers EXCEPT ![h] =
             [EmptyPoolResponse(handlers[h], n) EXCEPT !.sawEmpty = (n = 0)]]
    /\ UNCHANGED <<imageURLs, imageCache, refresh, workers, requests, firstResult,
                   cropIn, cropOut, sizesIn, largestOut>>

\* imageURLIndex := rand.Int() % len(imageURLs)
SendImagePicksIndex(h) ==
    /\ handlers[h].pc = "index"
    /\ \E n \in LensInView :
          IF n = 0
          THEN handlers' = [handlers EXCEPT ![h] =
                  [@ EXCEPT !.pc = "idle", !.panic = "integer divide by zero",
                            !.poolReads = @ + 1]]
          ELSE \E random \in 0..(n - 1) :
                  handlers' = [handlers EXCEPT ![h] =
                     [@ EXCEPT !.pc = "element", !.index = random % n,
                               !.poolReads = @ + 1]]
    /\ UNCHANGED <<imageURLs, imageCache, refresh, workers, requests, firstResult,
                   cropIn, cropOut, sizesIn, largestOut>>

\* a string that is no element of any list: what the memory past the end of
\* a backing array holds, read as a string header
GarbageURL == <<"?">>

\* the outcomes of imageURLs[index] when the bounds check uses the len word
\* seenLen and the element is loaded through the data pointer of array: a
\* panic of the runtime, or the string that was read.  An index the check
\* lets through but that array does not have is a load through a nil pointer
\* (a nil slice) or from the memory behind the backing array, which faults
\* or yields whatever is there.
ElementOutcomes(index, seenLen, array) ==
    IF index >= seenLen
    THEN {[panic |-> "index out of range", url |-> <<>>]}
    ELSE IF index < Len(array)
    THEN {[panic |-> "", url |-> array[index + 1]]}
    ELSE IF array = <<>>
    THEN {[panic |-> "nil pointer dereference", url |-> <<>>]}
    ELSE {[panic |-> "", url |-> GarbageURL],
          [panic |-> "unexpected fault address", url |-> <<>>]}

\* imageURLs[imageURLIndex], the argument of getImage: the len word and the
\* data pointer are read separately, each from a list in view
SendImageReadsElement(h) ==
    /\ handlers[h].pc = "element"
    /\ LET hr == handlers[h]
       IN  \E lenOf \in ListsInView, array \in ListsInView :
           \E outcome \in ElementOutcomes(hr.index, Len(lenOf), array) :
              handlers' = [handlers EXCEPT ![h] =
                 IF outcome.panic # ""
                 THEN [hr EXCEPT !.pc = "idle", !.panic = outcome.panic,
                                 !.poolReads = @ + 1]
                 ELSE [hr EXCEPT !.pc = "getImage", !.poolReads = @ + 1,
                                 !.call = NewCall(outcome.url, hr.size)]]
    /\ UNCHANGED <<imageURLs, imageCache, refresh, workers, requests, firstResult,
                   cropIn, cropOut, sizesIn, largestOut>>

\* the response of sendImage once getImage has returned
ImageResponse(hr, c) ==
    IF c.pc # "return" THEN [hr EXCEPT !.call = c]
    ELSE IF c.err # ""
    THEN [hr EXCEPT !.call = c, !.pc = "idle", !.status = 503, !.body = UnavailableBody]
    ELSE [hr EXCEPT !.call = c, !.pc = "idle", !.status = 200, !.body = c.imageResult]

\* getImage(imageURLs[imageURLIndex], size, imageCache), one step, and the
\* response when it returns
SendImageGetsImage(h) ==
    /\ handlers[h].pc = "getImage"
    /\ \E r \in GetImageSteps(WithPrior(handlers[h].call), imageCache) :
          /\ handlers' = [handlers EXCEPT ![h] = ImageResponse(@, r.call)]
          /\ imageCache' = r.cache
          /\ firstResult' = RecordResult(firstResult, r.cache, r.call)
    /\ UNCHANGED <<imageURLs, refresh, workers, requests, cropIn, cropOut, sizesIn, largestOut>>

(***************************************************************************)
(* The service.                                                            *)
(***************************************************************************)
Next ==
    \/ DiscoverFails
    \/ DiscoverSucceeds
    \/ StoreCompletes
    \/ PreCacheSends
    \/ PreCacheCloses
    \/ RefreshWakes
    \/ \E i \in 1..Len(workers) : WorkerReceives(i)
    \/ \E i \in 1..Len(workers) : WorkerGetsImage(i)
    \/ \E i \in 1..Len(workers) : WorkerEnds(i)
    \/ \E h \in Handlers : SendImageStarts(h)
    \/ \E h \in Handlers : SendImageChecksLen(h)
    \/ \E h \in Handlers : SendImagePicksIndex(h)
    \/ \E h \in Handlers : SendImageReadsElement(h)
    \/ \E h \in Handlers : SendImageGetsImage(h)

Spec == Init /\ [][Next]_vars

(***************************************************************************)
(* The geometry specification: getCroppingRectangleForAspectRatio applied  *)
(* to enumerated original sizes and target ratios, and to the cases of     *)
(* main_test.go.                                                           *)
(***************************************************************************)
\* (original width, original height, target width, target height) of main_test.go
TestCases ==
    { [Width |-> 3000, Height |-> 2402, tw |-> 1920, th |-> 1080],
      [Width |-> 2402, Height |-> 3000, tw |-> 1920, th |-> 1080],
      [Width |-> 3000, Height |-> 1000, tw |-> 1920, th |-> 1080],
      [Width |-> 2402, Height |-> 3000, tw |-> 360, th |-> 640] }

\* target sizes whose float64 ratio is inexact in a way that shows in the result
InexactRatioCases ==
    { [Width |-> 5, Height |-> 15, tw |-> 10, th |-> 29],
      [Width |-> 15, Height |-> 11, tw |-> 15, th |-> 22] }

CropInputs ==
    [Width : 1..MaxDim, Height : 1..MaxDim, tw : 1..MaxRatioTerm, th : 1..MaxRatioTerm]
        \cup TestCases \cup InexactRatioCases

InitCrop ==
    /\ InitSystem
    /\ cropIn \in CropInputs
    /\ cropOut = NoRect
    /\ sizesIn = <<>>
    /\ largestOut = NoSize

ComputeCrop ==
    /\ cropOut = NoRect
    /\ cropOut' = getCroppingRectangleForAspectRatio(
                      [Width |-> cropIn.Width, Height |-> cropIn.Height],
                      cropIn.tw, cropIn.th)
    /\ UNCHANGED <<cropIn, imageURLs, imageCache, refresh, workers, handlers,
                   requests, firstResult, sizesIn, largestOut>>

NextCrop == ComputeCrop

SpecCrop == InitCrop /\ [][NextCrop]_vars

(***************************************************************************)
(* The catalog specification: Largest() applied to enumerated catalogs of  *)
(* sizes with positive dimensions.                                         *)
(***************************************************************************)
\* most entries of an enumerated catalog
MaxCatalog == 3
\* largest width and height of an enumerated catalog entry
MaxSide == 3

\* the name of the i-th entry of an enumerated catalog: "size<i>"
EntryName(i) == <<"s", "i", "z", "e">> \o Itoa(i)

\* the catalog of n entries with the given (width, height) pairs, the i-th
\* named EntryName(i)
Catalog(n, dims) ==
    [i \in 1..n |-> [Name |-> EntryName(i), Width |-> dims[i][1], Height |-> dims[i][2]]]

InitLargest ==
    /\ InitSystem
    /\ cropIn = NoCrop
    /\ cropOut = NoRect
    /\ \E n \in 1..MaxCatalog :
          \E dims \in [1..n -> (1..MaxSide) \X (1..MaxSide)] :
             sizesIn = Catalog(n, dims)
    /\ largestOut = NoSize

ComputeLargest ==
    /\ sizesIn # <<>>
    /\ largestOut = NoSize
    /\ largestOut' = SizesLargest(sizesIn)
    /\ UNCHANGED <<sizesIn, cropIn, cropOut, imageURLs, imageCache, refresh, workers,
                   handlers, requests, firstResult>>

NextLargest == ComputeLargest

SpecLargest == InitLargest /\ [][NextLargest]_vars


(***************************************************************************)
(* The precache specification: one call of preCacheLargestImages from its  *)
(* first send on, and the worker it started, for lists of up to MaxQueue   *)
(* URLs.  The initial state is the service after its first successful      *)
(* discovery.  The Go scheduler runs every goroutine that can take a step, *)
(* which is weak fairness of the steps of each goroutine.                  *)
(***************************************************************************)
\* most URLs in the list of the precache specification
MaxQueue == 3

InitPrecache ==
    /\ \E urls \in SeqsUpTo(PoolURLs, MaxQueue) :
          /\ imageURLs = urls
          /\ workers = preCacheLargestImages(<<>>, urls)
          /\ refresh = [InitRefresh EXCEPT !.pc = "send", !.attempts = 1, !.last = "ok",
                                           !.gap = "first", !.pending = urls]
    /\ imageCache = <<>>
    /\ handlers = [h \in Handlers |-> IdleHandler]
    /\ requests = 0
    /\ firstResult = <<>>
    /\ cropIn = NoCrop
    /\ cropOut = NoRect
    /\ sizesIn = <<>>
    /\ largestOut = NoSize

\* the steps of the refresh goroutine inside preCacheLargestImages
EnqueueStep == PreCacheSends \/ PreCacheCloses

\* the steps of the workers
WorkerStep ==
    \/ \E i \in 1..Len(workers) : WorkerReceives(i)
    \/ \E i \in 1..Len(workers) : WorkerGetsImage(i)
    \/ \E i \in 1..Len(workers) : WorkerEnds(i)

NextPrecache == EnqueueStep \/ WorkerStep

\* both goroutines scheduled fairly
SpecPrecache ==
    InitPrecache /\ [][NextPrecache]_vars /\ WF_vars(EnqueueStep) /\ WF_vars(WorkerStep)

\* only the refresh goroutine scheduled fairly: the worker may never run
SpecEnqueue ==
    InitPrecache /\ [][NextPrecache]_vars /\ WF_vars(EnqueueStep)

(***************************************************************************)
(* Properties.                                                             *)
(***************************************************************************)
\* every getImage call in progress or just returned
AllCalls == {handlers[h].call : h \in Handlers} \cup {workers[i].call : i \in 1..Len(workers)}

CatalogNames == {getImageSizes[i].Name : i \in 1..Len(getImageSizes)}

\* C1: a handler racing with a pool replacement never divides by a zero length
\* and never indexes out of range: no handler ends in a run-time panic.
C1_HandlerNeverPanics ==
    \A h \in Handlers : handlers[h].panic = ""

\* C2: a request that misses both the size entry and the normalized original,
\* and whose fetch, decode and encode of the original succeed, is answered 200
\* with the resized bytes, and the cache then holds both entries of the URL.
C2_DoubleMissIsServed ==
    \A h \in Handlers :
        LET hr == handlers[h]
            c  == hr.call
        IN  (hr.pc = "idle" /\ c.pc = "return" /\ c.normalized)
                => /\ hr.status = 200
                   /\ hr.body.kind = "jpeg"
                   /\ OriginalCacheKey(c.url) \in DOMAIN imageCache
                   /\ SizeCacheKey(c.url, c.size) \in DOMAIN imageCache

\* C3: while the latest discovery attempt is a failed one, the pool is the list
\* it was before that attempt, and a request started since is served from that
\* list: no panic, 503 only if the list is empty, the URL the list's element.
C3_FailedCycleKeepsPool ==
    refresh.last = "failed" =>
        /\ imageURLs = refresh.before
        /\ \A h \in Handlers :
              LET hr == handlers[h]
              IN  (hr.param # <<>> /\ hr.attemptsAtStart = refresh.attempts) =>
                     /\ hr.panic = ""
                     /\ hr.sawEmpty => refresh.before = <<>>
                     /\ hr.pc = "element" => hr.index < Len(refresh.before)
                     /\ hr.call.pc # "none" =>
                           /\ hr.index < Len(refresh.before)
                           /\ hr.call.url = refresh.before[hr.index + 1]

C3_Witness ==
    /\ refresh.last = "failed"
    /\ refresh.before # <<>>
    /\ \E h \in Handlers :
          /\ handlers[h].attemptsAtStart = refresh.attempts
          /\ handlers[h].call.pc # "none"

\* C4: every discovery attempt but the first comes after a sleep of the refresh
\* interval, whether the attempt before it succeeded or failed.
C4_SleepBetweenAttempts ==
    refresh.gap # "immediate"

\* C5: a request for a catalog size that finds the pool empty is answered 503
\* and has made no cache lookup, no fetch and no decode.
C5_EmptyPoolIsUnavailable ==
    \A h \in Handlers :
        LET hr == handlers[h]
        IN  (hr.param \in CatalogNames /\ hr.sawEmpty) =>
               /\ hr.pc = "idle"
               /\ hr.status = 503
               /\ hr.body = UnavailableBody
               /\ hr.panic = ""
               /\ hr.call.gets = 0 /\ hr.call.fetches = 0 /\ hr.call.decodes = 0

C5_Witness ==
    \E h \in Handlers :
        /\ handlers[h].param \in CatalogNames
        /\ handlers[h].sawEmpty
        /\ handlers[h].status = 503

\* C6: a request whose size name is not in the catalog is answered 400 without
\* a read of the pool or the cache, and the message holds every catalog name
\* exactly once.
C6_UnknownSizeIsBadRequest ==
    \A h \in Handlers :
        LET hr == handlers[h]
        IN  (hr.param # <<>> /\ hr.param \notin CatalogNames) =>
               /\ hr.pc = "idle"
               /\ hr.status = 400
               /\ hr.poolReads = 0
               /\ hr.call = NoCall
               /\ \A name \in CatalogNames : Occurrences(name, hr.body) = 1

C6_Witness ==
    /\ imageURLs # <<>>
    /\ imageCache # <<>>
    /\ \E h \in Handlers :
          handlers[h].status = 400 /\ handlers[h].param \notin CatalogNames

\* C7: a getImage call that starts after a call for the same URL and size has
\* succeeded, the entry not evicted since, hits the cache: it returns the bytes
\* of the first call and fetches, decodes and resizes nothing.
C7_SecondCallHits ==
    \A c \in AllCalls :
        (c.pc \notin {"none", "lookup"} /\ c.prior # NilBytes) =>
            /\ c.pc = "return"
            /\ c.found
            /\ c.imageResult = c.prior
            /\ c.err = ""
            /\ c.fetches = 0 /\ c.decodes = 0 /\ c.resizes = 0

C7_Witness ==
    \E h \in Handlers :
        /\ handlers[h].call.prior # NilBytes
        /\ handlers[h].call.found
        /\ handlers[h].status = 200
        /\ handlers[h].body = handlers[h].call.prior

\* the variants of a source: the normalized original and the catalog sizes
OriginalVariant == <<"o", "r", "i", "g", "i", "n", "a", "l">>
Variants == {OriginalVariant} \cup {SizeString(getImageSizes[i]) : i \in 1..Len(getImageSizes)}

\* the key the program uses for a URL and a variant
KeyOf(url, variant) ==
    IF variant = OriginalVariant THEN OriginalCacheKey(url)
    ELSE SizeCacheKey(url,
            getImageSizes[CHOOSE i \in 1..Len(getImageSizes) :
                              SizeString(getImageSizes[i]) = variant])

\* the URL and variant some bytes were computed for
StoredFor(bytes) ==
    <<bytes.image.url,
      IF bytes.quality = 100 THEN OriginalVariant
      ELSE Itoa(bytes.image.Width) \o <<"x">> \o Itoa(bytes.image.Height)>>

\* C8: keys are injective over (URL, variant); an entry found under the key of
\* (URL, variant), in the cache or by a call, was stored for that URL and variant.
C8_KeysAreInjective ==
    /\ \A u1 \in PoolURLs, u2 \in PoolURLs, v1 \in Variants, v2 \in Variants :
          KeyOf(u1, v1) = KeyOf(u2, v2) => (u1 = u2 /\ v1 = v2)
    /\ \A u \in PoolURLs, v \in Variants :
          KeyOf(u, v) \in DOMAIN imageCache => StoredFor(imageCache[KeyOf(u, v)]) = <<u, v>>
    /\ \A c \in AllCalls :
          /\ c.found => StoredFor(c.imageResult) = <<c.url, SizeString(c.size)>>
          /\ c.originalFound => StoredFor(c.originalImage) = <<c.url, OriginalVariant>>

C8_Witness ==
    \E h \in Handlers :
        LET c == handlers[h].call
        IN  /\ c.found
            /\ OriginalCacheKey(c.url) \in DOMAIN imageCache
            /\ SizeCacheKey(c.url, c.size) \in DOMAIN imageCache
            /\ imageCache[SizeCacheKey(c.url, c.size)] # imageCache[OriginalCacheKey(c.url)]

\* C9: the rectangle returned for positive width, height and ratio lies inside
\* the original and has positive width and height.
C9_RectangleInsideAndNonEmpty ==
    cropOut # NoRect =>
        /\ 0 <= cropOut.MinX /\ cropOut.MinX < cropOut.MaxX /\ cropOut.MaxX <= cropIn.Width
        /\ 0 <= cropOut.MinY /\ cropOut.MinY < cropOut.MaxY /\ cropOut.MaxY <= cropIn.Height

\* C10: when width/height < target ratio the rectangle keeps the full width,
\* its height is floor(width / ratio + 0.5) for the ratio tw/th, and it is
\* centred: y0 = (height - cropHeight) div 2, y1 = y0 + cropHeight.
\* 3000x2402 at 1920/1080 gives (0,357)-(3000,2045) and 2402x3000 at 1920/1080
\* gives (0,824)-(2402,2175).  floor(width * th / tw + 1/2) is computed in
\* integers as (2 * width * th + tw) div (2 * tw).
C10_NarrowerKeepsWidth ==
    LET cropHeight == cropOut.MaxY - cropOut.MinY
        exact == (2 * cropIn.Width * cropIn.th + cropIn.tw) \div (2 * cropIn.tw)
    IN  /\ (cropOut # NoRect /\ cropIn.Width * cropIn.th < cropIn.tw * cropIn.Height) =>
              /\ cropOut.MinX = 0
              /\ cropOut.MaxX = cropIn.Width
              /\ cropHeight = exact
              /\ cropOut.MinY = (cropIn.Height - cropHeight) \div 2
              /\ cropOut.MaxY = cropOut.MinY + cropHeight
        /\ (cropOut # NoRect
              /\ cropIn = [Width |-> 3000, Height |-> 2402, tw |-> 1920, th |-> 1080]) =>
              cropOut = [MinX |-> 0, MinY |-> 357, MaxX |-> 3000, MaxY |-> 2045]
        /\ (cropOut # NoRect
              /\ cropIn = [Width |-> 2402, Height |-> 3000, tw |-> 1920, th |-> 1080]) =>
              cropOut = [MinX |-> 0, MinY |-> 824, MaxX |-> 2402, MaxY |-> 2175]

\* C11: when width/height > target ratio the rectangle keeps the full height,
\* its width is floor(height * ratio + 0.5) for the ratio tw/th, and it is
\* centred: x0 = (width - cropWidth) div 2, x1 = x0 + cropWidth.
\* 3000x1000 at 1920/1080 gives (611,0)-(2389,1000) and 2402x3000 at 360/640
\* gives (357,0)-(2045,3000).  floor(height * tw / th + 1/2) is computed in
\* integers as (2 * height * tw + th) div (2 * th).
C11_WiderKeepsHeight ==
    LET cropWidth == cropOut.MaxX - cropOut.MinX
        exact == (2 * cropIn.Height * cropIn.tw + cropIn.th) \div (2 * cropIn.th)
    IN  /\ (cropOut # NoRect /\ cropIn.Width * cropIn.th > cropIn.tw * cropIn.Height) =>
              /\ cropOut.MinY = 0
              /\ cropOut.MaxY = cropIn.Height
              /\ cropWidth = exact
              /\ cropOut.MinX = (cropIn.Width - cropWidth) \div 2
              /\ cropOut.MaxX = cropOut.MinX + cropWidth
        /\ (cropOut # NoRect
              /\ cropIn = [Width |-> 3000, Height |-> 1000, tw |-> 1920, th |-> 1080]) =>
              cropOut = [MinX |-> 611, MinY |-> 0, MaxX |-> 2389, MaxY |-> 1000]
        /\ (cropOut # NoRect
              /\ cropIn = [Width |-> 2402, Height |-> 3000, tw |-> 360, th |-> 640]) =>
              cropOut = [MinX |-> 357, MinY |-> 0, MaxX |-> 2045, MaxY |-> 3000]

\* C12: the cropped dimension differs by less than one pixel from the exact
\* value that gives the target ratio for the dimension kept in full: from
\* width/ratio when the height is cropped, from height*ratio when the width is
\* cropped; when the ratios are equal nothing is cropped.
C12_WithinOnePixel ==
    LET cropWidth == cropOut.MaxX - cropOut.MinX
        cropHeight == cropOut.MaxY - cropOut.MinY
        less == cropIn.Width * cropIn.th < cropIn.tw * cropIn.Height
        greater == cropIn.Width * cropIn.th > cropIn.tw * cropIn.Height
    IN  cropOut # NoRect =>
           /\ less =>
                 /\ cropWidth = cropIn.Width
                 /\ cropHeight * cropIn.tw - cropIn.Width * cropIn.th < cropIn.tw
                 /\ cropIn.Width * cropIn.th - cropHeight * cropIn.tw < cropIn.tw
           /\ greater =>
                 /\ cropHeight = cropIn.Height
                 /\ cropWidth * cropIn.th - cropIn.Height * cropIn.tw < cropIn.th
                 /\ cropIn.Height * cropIn.tw - cropWidth * cropIn.th < cropIn.th
           /\ (~less /\ ~greater) =>
                 cropWidth * cropIn.th = cropHeight * cropIn.tw

\* an input whose exact cropped dimension is no integer, in either branch
C12_Witness ==
    /\ cropOut # NoRect
    /\ cropIn.Width * cropIn.th # cropIn.tw * cropIn.Height
    /\ (cropIn.Width * cropIn.th) % cropIn.tw # 0
    /\ (cropIn.Height * cropIn.tw) % cropIn.th # 0
    /\ cropIn \in InexactRatioCases

\* C20: when width/height equals the target ratio the rectangle is the full
\* frame (0,0)-(width,height).
C20_EqualRatioIsFullFrame ==
    (cropOut # NoRect /\ cropIn.Width * cropIn.th = cropIn.tw * cropIn.Height) =>
        cropOut = [MinX |-> 0, MinY |-> 0, MaxX |-> cropIn.Width, MaxY |-> cropIn.Height]

\* equal ratios with an inexact float64 ratio and a non-square original
C20_Witness ==
    /\ cropIn = [Width |-> 3, Height |-> 9, tw |-> 1, th |-> 3]
    /\ cropOut = [MinX |-> 0, MinY |-> 0, MaxX |-> 3, MaxY |-> 9]

\* C19: for a non-empty catalog of sizes with positive dimensions, Largest()
\* returns the entry of the least index among those of maximal area.
C19_LargestIsFirstMaximal ==
    largestOut # NoSize =>
        \E i \in 1..Len(sizesIn) :
            /\ largestOut = sizesIn[i]
            /\ \A j \in 1..Len(sizesIn) :
                  /\ sizesIn[j].Width * sizesIn[j].Height <= sizesIn[i].Width * sizesIn[i].Height
                  /\ (j < i) =>
                        sizesIn[j].Width * sizesIn[j].Height < sizesIn[i].Width * sizesIn[i].Height

\* a catalog whose maximal area occurs twice, after a smaller entry
C19_Witness ==
    /\ Len(sizesIn) = 3
    /\ sizesIn[1].Width * sizesIn[1].Height < sizesIn[2].Width * sizesIn[2].Height
    /\ sizesIn[2].Width * sizesIn[2].Height = sizesIn[3].Width * sizesIn[3].Height
    /\ sizesIn[2].Width # sizesIn[3].Width
    /\ largestOut = sizesIn[2]

\* the catalog entry of the least index among those of maximal area
LargestCatalogSize ==
    getImageSizes[CHOOSE i \in 1..Len(getImageSizes) :
        \A j \in 1..Len(getImageSizes) :
            /\ getImageSizes[j].Width * getImageSizes[j].Height
                  <= getImageSizes[i].Width * getImageSizes[i].Height
            /\ (j < i) => getImageSizes[j].Width * getImageSizes[j].Height
                             < getImageSizes[i].Width * getImageSizes[i].Height]

\* C13: a precache job only computes the largest catalog size, and when the job
\* a worker finished last fetched and decoded its URL, the cache holds both the
\* normalized original and the largest-size entry of that URL.
C13_PrecacheStoresBoth ==
    \A i \in 1..Len(workers) :
        LET w == workers[i]
        IN  /\ w.call.pc # "none" => w.call.size = LargestCatalogSize
            /\ w.last.normalized =>
                  /\ OriginalCacheKey(w.last.url) \in DOMAIN imageCache
                  /\ SizeCacheKey(w.last.url, LargestCatalogSize) \in DOMAIN imageCache

\* C14: a request that has ended has written exactly one response, 200, 400
\* or 503, and has not panicked; when getImage failed the response is 503
\* with the fixed retry-later text.
C14_OneResponseNoCrash ==
    \A h \in Handlers :
        LET hr == handlers[h]
        IN  (hr.pc = "idle" /\ hr.param # <<>>) =>
               /\ hr.panic = ""
               /\ hr.status \in {200, 400, 503}
               /\ hr.call.err # "" => (hr.status = 503 /\ hr.body = UnavailableBody)

\* what a computation that runs alone stores for a URL: the normalized original
LoneOriginal(url) ==
    [kind |-> "jpeg", quality |-> 100,
     image |-> BlurGaussian(bytesToImage(OriginImageBytes(url)).image, 30)]

\* C15: a call fetches from the origin only if it found neither its size entry
\* nor the normalized original resident; a call that found the normalized
\* original resident (and not its size entry) returns, without a fetch, the
\* resize of that cached original, and has stored it under its size key.
C15_FetchOnlyOnDoubleMiss ==
    \A c \in AllCalls :
        /\ c.fetches > 0 => (~c.sizeResident /\ ~c.originalResident)
        /\ (c.pc = "fetch") => (~c.sizeResident /\ ~c.originalResident)
        /\ (c.originalResident /\ c.pc = "return") =>
              /\ c.err = ""
              /\ c.fetches = 0
              /\ c.resizes = 1
              /\ c.originalImage = imageCache[OriginalCacheKey(c.url)]
              /\ c.imageResult.kind = "jpeg"
              /\ c.imageResult.image.url = c.url
              /\ c.imageResult.image.Width = c.size.Width
              /\ c.imageResult.image.Height = c.size.Height
              /\ SizeCacheKey(c.url, c.size) \in DOMAIN imageCache
              /\ imageCache[SizeCacheKey(c.url, c.size)] = c.imageResult

\* a request for the size the precache does not compute, served from the
\* normalized original the precache left
C15_Witness ==
    \E h \in Handlers :
        /\ handlers[h].status = 200
        /\ handlers[h].size.Name = NameSmall
        /\ handlers[h].call.originalResident
        /\ handlers[h].call.fetches = 0
        /\ handlers[h].body = imageCache[SizeCacheKey(handlers[h].call.url, handlers[h].size)]

\* what a computation that runs alone stores for a URL and a size
LoneResized(url, size) ==
    resizeAndCropImage(LoneOriginal(url), size).resizedImage

\* C16: a call in progress never waits for another call; a call that computed
\* its result finds it resident afterwards, whoever put last; and every
\* resident entry is the value a computation running alone would have stored.
C16_ConcurrentMissesRecompute ==
    /\ \A h \in Handlers :
          handlers[h].pc = "getImage" => ENABLED SendImageGetsImage(h)
    /\ \A i \in 1..Len(workers) :
          workers[i].pc = "getImage" => ENABLED WorkerGetsImage(i)
    /\ \A c \in AllCalls :
          (c.pc = "return" /\ c.err = "") =>
              /\ SizeCacheKey(c.url, c.size) \in DOMAIN imageCache
              /\ imageCache[SizeCacheKey(c.url, c.size)] = c.imageResult
    /\ \A u \in PoolURLs :
          /\ OriginalCacheKey(u) \in DOMAIN imageCache =>
                imageCache[OriginalCacheKey(u)] = LoneOriginal(u)
          /\ \A n \in 1..Len(getImageSizes) :
                SizeCacheKey(u, getImageSizes[n]) \in DOMAIN imageCache =>
                    imageCache[SizeCacheKey(u, getImageSizes[n])] = LoneResized(u, getImageSizes[n])

\* a request and a precache job that both missed the same size key and both
\* resized and stored: each looked the key up before the other's put
C16_Witness ==
    \E h \in Handlers, i \in 1..Len(workers) :
        /\ handlers[h].call.pc = "return"
        /\ ~handlers[h].call.sizeResident
        /\ handlers[h].call.resizes = 1
        /\ handlers[h].call.size = LargestCatalogSize
        /\ workers[i].last.url = handlers[h].call.url
        /\ workers[i].last.stored
        /\ imageCache[SizeCacheKey(handlers[h].call.url, handlers[h].call.size)]
              = handlers[h].body

\* precache worker goroutines that have not returned
LiveWorkers == {i \in 1..Len(workers) : workers[i].pc # "done"}

\* C17: the number of live precache workers never exceeds the one worker a
\* cycle starts, however many cycles have completed.
C17_FixedWorkerPool ==
    Cardinality(LiveWorkers) <= 1

\* the URLs of a worker's list that are still to be sent
StillToSend(i) ==
    IF i = Len(workers) /\ refresh.pc = "send" THEN refresh.pending ELSE <<>>

\* the URLs a worker has taken, those in its channel and those still to be sent
\* make up its list; the URL taken last is inside getImage or has been through
\* it; a worker that has ended has taken and processed the whole list
QueueInOrder ==
    \A i \in 1..Len(workers) :
        LET w == workers[i]
        IN  /\ w.received \o w.jobs \o StillToSend(i) = w.sent
            /\ w.pc = "getImage" =>
                  (w.received # <<>> /\ w.call.url = w.received[Len(w.received)])
            /\ (w.pc # "getImage" /\ w.received # <<>>) =>
                  w.last.url = w.received[Len(w.received)]
            /\ w.pc = "done" => (w.received = w.sent /\ w.closed /\ w.jobs = <<>>)

\* C22: every URL of the list reaches the worker exactly once and in list
\* order, the worker runs getImage on each, and once the channel is closed and
\* drained the worker ends.
C22_QueueDrainedInOrder ==
    /\ []QueueInOrder
    /\ <>(\A i \in 1..Len(workers) : workers[i].pc = "done")

\* a worker that has ended after a list of MaxQueue URLs, not all the same
C22_Witness ==
    \E i \in 1..Len(workers) :
        /\ workers[i].pc = "done"
        /\ Len(workers[i].sent) = MaxQueue
        /\ workers[i].sent[1] # workers[i].sent[2]
        /\ workers[i].received = workers[i].sent

\* C23: the channel's capacity is the length of the list, a send or the close
\* is possible whenever preCacheLargestImages has one to do, whatever the
\* worker has done, and the refresh loop reaches its sleep even if the worker
\* never runs.
C23_EnqueueNeverBlocks ==
    /\ [](\A i \in 1..Len(workers) : workers[i].capacity = Len(workers[i].sent))
    /\ [](refresh.pc = "send" => ENABLED EnqueueStep)
    /\ [](refresh.pc = "send" => <>(refresh.pc = "sleep"))

\* the loop asleep with the whole list in the channel and the worker not started
C23_Witness ==
    /\ refresh.pc = "sleep"
    /\ Len(workers) = 1
    /\ workers[1].pc = "receive"
    /\ workers[1].received = <<>>
    /\ Len(workers[1].jobs) = MaxQueue
    /\ workers[1].closed

\* C21: a call fetches from the origin at most once, and a request whose fetch
\* failed has ended with 503 and the fixed text after that one fetch.
C21_OneFetchPerRequest ==
    /\ \A c \in AllCalls : c.fetches <= 1
    /\ \A h \in Handlers :
          LET hr == handlers[h]
          IN  (hr.call.pc = "return" /\ hr.call.err = "fetch") =>
                 /\ hr.pc = "idle"
                 /\ hr.status = 503
                 /\ hr.body = UnavailableBody
                 /\ hr.call.fetches = 1

C21_Witness ==
    \E h \in Handlers :
        /\ handlers[h].status = 503
        /\ handlers[h].call.err = "fetch"
        /\ handlers[h].call.fetches = 1

\* C24: a getImage call that returned an error because the fetch failed or the
\* fetched bytes did not decode has changed nothing in the cache.
C24_FailedFetchLeavesCache ==
    \A c \in AllCalls :
        (c.pc = "return" /\ c.err \in {"fetch", "decode"} /\ ~c.normalized) =>
            /\ ~c.changed
            /\ c.fetches = 1
            /\ c.resizes = 0

\* a request whose fetched bytes did not decode, the cache still empty
C24_Witness ==
    \E h \in Handlers :
        /\ handlers[h].call.pc = "return"
        /\ handlers[h].call.err = "decode"
        /\ ~handlers[h].call.normalized
        /\ handlers[h].call.decodes = 1
        /\ imageCache = <<>>

====
